---- MODULE Spec2Model ----
(***************************************************************************)
(* A model of the load-balancer simulation of src/main.go: the servers     *)
(* (queue, slots, SlotsUsed, LRU cache), the dispatch policies, the global *)
(* Tick and the stepping loop of main with its mid-run reset.              *)
(*                                                                         *)
(* The program's constants (numServers, numSlots, the handle times,        *)
(* requestLimit, cacheSize, maxQueue) and its two command-line arguments   *)
(* are read from the record cfg, fixed at Init: each specification below   *)
(* runs the same code under its own, scaled-down, configuration.           *)
(***************************************************************************)
EXTENDS Integers, Sequences, FiniteSets, TLC

VARIABLES
  cfg,               \* the constants of main.go:34-42 and os.Args, fixed at Init
  prevCompletion,    \* main.go:210
  tm,                \* main.go:46
  servers,           \* main.go:47, index 0..numServers-1
  rrIdx,             \* main.go:85
  totalRequests,     \* main.go:176
  acceptedRequests,  \* main.go:177
  totalCached,       \* main.go:178
  totalQueued,       \* main.go:179
  totalTime,         \* main.go:180
  tmx,               \* main.go:211
  pc,                \* position in main's loop
  requests,          \* Tick's local: the generated requests not yet dispatched
  cur,               \* Tick's loop over servers (main.go:201): index of the server
  si,                \* Server.Tick's loop over s.Slots (main.go:168): slot index
  done,              \* Server.Tick's return value, not yet recorded (main.go:202-205)
  \* history (not program state): what the claims speak about
  dispatched,        \* number of ChooseServer calls so far in the run
  chosen,            \* the result of the last ChooseServer call (-1: none yet)
  dropped,           \* queue-full rejections since the last zeroing of the counters
  carried,           \* requests queued or slotted when the counters were zeroed
  resets,            \* how many times main zeroed the counters
  resetTick,         \* tm at the last zeroing (-1: none yet)
  released,          \* the requests handed to RecordStats, each with its tick and server
  insertedSince,     \* per server and key: keys inserted since the key's last insert
  touchedSince,      \* per server and key: keys inserted or hit since that insert
  enqueuedLog,       \* per server: the requests AddRequest appended, in that order
  admittedLog,       \* per server: the requests HandleRequest slotted, in that order
  printed            \* whether the last loop body of main printed a snapshot

vars == <<cfg, prevCompletion, tm, servers, rrIdx, totalRequests, acceptedRequests, totalCached,
          totalQueued, totalTime, tmx, pc, requests, cur, si, done,
          dispatched, chosen, dropped, carried, resets, resetTick, released,
          insertedSince, touchedSince, enqueuedLog, admittedLog, printed>>

histVars == <<dispatched, chosen, dropped, carried, resets, resetTick, released,
              insertedSince, touchedSince, enqueuedLog, admittedLog, printed>>

----------------------------------------------------------------------------
\* The constants of main.go:34-42, read from the configuration.
numServers == cfg.numServers
numSlots == cfg.numSlots
cachedHandleTime == cfg.cachedHandleTime
uncachedHandleTime == cfg.uncachedHandleTime
requestLimit == cfg.requestLimit
cacheSize == cfg.cacheSize
maxQueue == cfg.maxQueue
\* os.Args[1]: the key into choosePolicy (main.go:64)
policy == cfg.policy
\* the constant 16 of modchoose2 (main.go:102)
biasMargin == 16

ServerIds == 0 .. (numServers - 1)
SlotIds == 0 .. (numSlots - 1)

\* type Request (main.go:14-20); ZeroRequest is Go's zero value
ZeroRequest == [Item |-> 0, Sent |-> 0, Accepted |-> 0, Completed |-> 0, Cached |-> FALSE]

\* Request{Item: item, Sent: tm} (main.go:76-79), tm being `now`
NewRequest(item, now) == [ZeroRequest EXCEPT !.Item = item, !.Sent = now]

\* &Server{Queue: ..., Slots: make([]Slot, numSlots), Cache: lru.New(cacheSize)}
\* (main.go:54-58).  The cache is its recency list, most recently used first.
NewServer ==
  [Queue |-> <<>>,
   Slots |-> [i \in SlotIds |-> [Full |-> FALSE, Request |-> ZeroRequest]],
   SlotsUsed |-> 0,
   Cache |-> <<>>]

----------------------------------------------------------------------------
\* Sequence helpers
RECURSIVE IndexOf(_, _, _)
IndexOf(seq, x, i) ==
  IF i > Len(seq) THEN 0
  ELSE IF seq[i] = x THEN i
  ELSE IndexOf(seq, x, i + 1)

Contains(seq, x) == IndexOf(seq, x, 1) # 0

Without(seq, x) == SelectSeq(seq, LAMBDA y : y # x)

\* Get as a lookup that leaves the list as it is
CacheGetPure(cache, key) == cache

\* lru.Cache.Get as called at main.go:129: a hit moves the entry to the front of
\* the recency list (groupcache's lru.Get calls MoveToFront); a miss changes nothing.
CacheGet(cache, key) ==
  IF Contains(cache, key) THEN <<key>> \o Without(cache, key) ELSE cache

\* Add that evicts as soon as the list reaches MaxEntries
CacheAddEvictsEarly(cache, key) ==
  IF Contains(cache, key) THEN <<key>> \o Without(cache, key)
  ELSE LET pushed == <<key>> \o cache
       IN IF cacheSize # 0 /\ Len(pushed) >= cacheSize
          THEN SubSeq(pushed, 1, Len(pushed) - 1)
          ELSE pushed

\* lru.Cache.Add as called at main.go:151: an existing key moves to the front; a
\* new key is pushed at the front and, if MaxEntries (cacheSize) is not 0 and is
\* exceeded, the oldest entry is removed.
CacheAdd(cache, key) ==
  IF Contains(cache, key) THEN <<key>> \o Without(cache, key)
  ELSE LET pushed == <<key>> \o cache
       IN IF cacheSize # 0 /\ Len(pushed) > cacheSize
          THEN SubSeq(pushed, 1, Len(pushed) - 1)
          ELSE pushed

----------------------------------------------------------------------------
\* Server.Outstanding (main.go:156-158)
Outstanding(s) == Len(s.Queue) + s.SlotsUsed

\* AddRequest with the bound tested one too late
AddRequestOffByOne(s, r) ==
  IF Len(s.Queue) <= maxQueue THEN [s EXCEPT !.Queue = Append(@, r)] ELSE s

\* AddRequest that makes room at a full queue by giving up the oldest entry
AddRequestEvictsOldest(s, r) ==
  IF Len(s.Queue) < maxQueue
  THEN [s EXCEPT !.Queue = Append(@, r)]
  ELSE [s EXCEPT !.Queue = Append(Tail(@), r)]

\* Server.AddRequest (main.go:110-114)
AddRequest(s, r) ==
  IF Len(s.Queue) < maxQueue THEN [s EXCEPT !.Queue = Append(@, r)] ELSE s

\* Server.FindSlot (main.go:116-123): the first slot that is not Full; -1 stands
\* for the panic "All slots used".
FindSlot(s) ==
  IF \E i \in SlotIds : ~s.Slots[i].Full
  THEN CHOOSE i \in SlotIds : ~s.Slots[i].Full /\ \A j \in SlotIds : j < i => s.Slots[j].Full
  ELSE -1

\* The handle time with the surcharge computed from the count after the admission
HandleTimeCountsAdmitted(s, cached) ==
  LET base == IF cached THEN cachedHandleTime ELSE uncachedHandleTime
  IN IF s.SlotsUsed + 1 > numSlots \div 2
     THEN base + (base \div numSlots) * (s.SlotsUsed + 1 - numSlots \div 2)
     ELSE base

\* The handle time without the surcharge of main.go:137-139
HandleTimeNoSurcharge(s, cached) ==
  IF cached THEN cachedHandleTime ELSE uncachedHandleTime

\* The handle time of HandleRequest (main.go:130-139): the base time by the cache
\* lookup, plus the surcharge computed from SlotsUsed as it is at that line.
HandleTime(s, cached) ==
  LET base == IF cached THEN cachedHandleTime ELSE uncachedHandleTime
  IN IF s.SlotsUsed > numSlots \div 2
     THEN base + (base \div numSlots) * (s.SlotsUsed - numSlots \div 2)
     ELSE base

\* HandleRequest that does not stamp r.Accepted
HandleRequestNoAccepted(s, r) ==
  LET i == FindSlot(s)
      cached == Contains(s.Cache, r.Item)
      r2 == [r EXCEPT !.Cached = IF cached THEN TRUE ELSE @,
                      !.Completed = tm + HandleTime(s, cached)]
  IN [s EXCEPT !.Slots[i] = [Full |-> TRUE, Request |-> r2],
               !.Cache = CacheGet(@, r.Item),
               !.SlotsUsed = @ + 1]

\* Server.HandleRequest (main.go:125-145), for a server with a free slot.
HandleRequest(s, r) ==
  LET i == FindSlot(s)
      cached == Contains(s.Cache, r.Item)
      r2 == [r EXCEPT !.Accepted = tm,
                      !.Cached = IF cached THEN TRUE ELSE @,
                      !.Completed = tm + HandleTime(s, cached)]
  IN [s EXCEPT !.Slots[i] = [Full |-> TRUE, Request |-> r2],
               !.Cache = CacheGet(@, r.Item),
               !.SlotsUsed = @ + 1]

\* CompleteRequest that frees the slot and forgets the counter
CompleteRequestNoDecrement(s, i) ==
  [s EXCEPT !.Slots[i].Full = FALSE,
            !.Cache = CacheAdd(@, s.Slots[i].Request.Item)]

\* CompleteRequest that leaves the Full flag of the slot set
CompleteRequestKeepsFull(s, i) ==
  [s EXCEPT !.SlotsUsed = @ - 1,
            !.Cache = CacheAdd(@, s.Slots[i].Request.Item)]

\* Server.CompleteRequest (main.go:147-154): the server afterwards; the request
\* it returns is s.Slots[i].Request.
CompleteRequest(s, i) ==
  [s EXCEPT !.Slots[i].Full = FALSE,
            !.SlotsUsed = @ - 1,
            !.Cache = CacheAdd(@, s.Slots[i].Request.Item)]

\* The keys of choosePolicy (main.go:88-99)
Policies == {"random", "roundrobin", "modulohash", "modchoose2"}

\* init (main.go:64): choosePolicy[os.Args[1]] of a name that is no key of the map
\* is the zero value of the function type, nil; init does not test it.
ChooseServerIsNil == policy \notin Policies

\* choosePolicy whose modchoose2 takes the second candidate when the margin is just met
ChooseServerAtMargin(r) ==
  CASE policy = "random" -> ServerIds
    [] policy = "roundrobin" -> {rrIdx}
    [] policy = "modulohash" -> {r.Item % numServers}
    [] policy = "modchoose2" ->
         LET first == r.Item % numServers
             second == (first * r.Item + 1) % numServers
         IN IF Outstanding(servers[second]) + biasMargin <= Outstanding(servers[first])
            THEN {second}
            ELSE {first}

\* choosePolicy (main.go:87-108): the set of indices ChooseServer(r) may return
\* (the random policy draws; the others are functions of r and the state).
ChooseServer(r) ==
  CASE policy = "random" -> ServerIds
    [] policy = "roundrobin" -> {rrIdx}
    [] policy = "modulohash" -> {r.Item % numServers}
    [] policy = "modchoose2" ->
         LET first == r.Item % numServers
             second == (first * r.Item + 1) % numServers
         IN IF Outstanding(servers[second]) + biasMargin < Outstanding(servers[first])
            THEN {second}
            ELSE {first}

\* rrIdx wrapped modulo the number of slots
NextRrIdxModSlots == IF policy = "roundrobin" THEN (rrIdx + 1) % numSlots ELSE rrIdx

\* the roundrobin policy's update of rrIdx (main.go:93)
NextRrIdx == IF policy = "roundrobin" THEN (rrIdx + 1) % numServers ELSE rrIdx

\* main's total (main.go:216-219)
RECURSIVE SumOutstanding(_)
SumOutstanding(n) ==
  IF n = 0 THEN 0 ELSE Outstanding(servers[n - 1]) + SumOutstanding(n - 1)

TotalOutstanding == SumOutstanding(numServers)

----------------------------------------------------------------------------
\* GenerateRequests (main.go:72-83) at tick `now`: the Poisson count is any number
\* up to cfg.maxArrivals (0 outside cfg.arrivalTicks, the ticks at which the
\* arrival process is not silent), each item any key of cfg.items.
GenerateRequests(now) ==
  LET counts == IF now \in cfg.arrivalTicks THEN 0 .. cfg.maxArrivals ELSE {0}
  IN UNION { { [k \in 1 .. n |-> NewRequest(items[k], now)] : items \in [1 .. n -> cfg.items] }
             : n \in counts }

\* init (main.go:51-70) and the zero values of the globals
InitWith(configs) ==
  /\ cfg \in configs
  /\ prevCompletion = -1
  /\ tm = 0
  /\ servers = [i \in ServerIds |-> NewServer]
  /\ rrIdx = 0
  /\ totalRequests = 0
  /\ acceptedRequests = 0
  /\ totalCached = 0
  /\ totalQueued = 0
  /\ totalTime = 0
  /\ tmx = 0
  /\ pc = "tick"
  /\ requests = <<>>
  /\ cur = 0
  /\ si = 0
  /\ done = <<>>
  /\ dispatched = 0
  /\ chosen = -1
  /\ dropped = 0
  /\ carried = 0
  /\ resets = 0
  /\ resetTick = -1
  /\ released = <<>>
  /\ insertedSince = [i \in ServerIds |-> <<>>]
  /\ touchedSince = [i \in ServerIds |-> <<>>]
  /\ enqueuedLog = [i \in ServerIds |-> <<>>]
  /\ admittedLog = [i \in ServerIds |-> <<>>]
  /\ printed = FALSE

\* Tick, its first lines (main.go:192-194): advance tm and generate the arrivals.
TickBegin ==
  /\ pc = "tick"
  /\ tm' = tm + 1
  /\ requests' \in (IF tm' <= requestLimit THEN GenerateRequests(tm') ELSE {<<>>})
  /\ pc' = IF requests' = <<>> THEN "admit" ELSE "dispatch"
  /\ cur' = 0
  /\ UNCHANGED <<cfg, prevCompletion, servers, rrIdx, totalRequests, acceptedRequests,
                 totalCached, totalQueued, totalTime, tmx, si, done>>
  /\ UNCHANGED histVars

\* Dispatch that counts a request as generated only when it was enqueued
DispatchCountsEnqueued ==
  /\ pc = "dispatch"
  /\ requests # <<>>
  /\ IF ChooseServerIsNil
     THEN \* the call of the nil ChooseServer (main.go:197) panics
          /\ totalRequests' = totalRequests + 1
          /\ pc' = "panicNilFunc"
          /\ UNCHANGED <<requests, servers, rrIdx, dispatched, chosen, dropped, enqueuedLog>>
     ELSE /\ LET request == Head(requests) IN
             \E i \in ChooseServer(request) :
                /\ rrIdx' = NextRrIdx
                /\ servers' = [servers EXCEPT ![i] = AddRequest(@, request)]
                /\ totalRequests' =
                     IF servers'[i].Queue = servers[i].Queue
                     THEN totalRequests
                     ELSE totalRequests + 1
                /\ chosen' = i
                /\ dropped' =
                     IF servers'[i].Queue = servers[i].Queue THEN dropped + 1 ELSE dropped
                /\ enqueuedLog' =
                     IF servers'[i].Queue = servers[i].Queue
                     THEN enqueuedLog
                     ELSE [enqueuedLog EXCEPT ![i] = Append(@, request)]
          /\ dispatched' = dispatched + 1
          /\ requests' = Tail(requests)
          /\ pc' = IF requests' = <<>> THEN "admit" ELSE "dispatch"
  /\ UNCHANGED <<cfg, prevCompletion, tm, acceptedRequests, totalCached, totalQueued,
                 totalTime, tmx, cur, si, done>>
  /\ UNCHANGED <<carried, resets, resetTick, released, insertedSince, touchedSince,
                 admittedLog, printed>>

\* Tick, one iteration of its loop over the requests (main.go:195-199).
Dispatch ==
  /\ pc = "dispatch"
  /\ requests # <<>>
  /\ IF ChooseServerIsNil
     THEN \* the call of the nil ChooseServer (main.go:197) panics
          /\ totalRequests' = totalRequests + 1
          /\ pc' = "panicNilFunc"
          /\ UNCHANGED <<requests, servers, rrIdx, dispatched, chosen, dropped, enqueuedLog>>
     ELSE /\ LET request == Head(requests) IN
             \E i \in ChooseServer(request) :
                /\ totalRequests' = totalRequests + 1
                /\ rrIdx' = NextRrIdx
                /\ servers' = [servers EXCEPT ![i] = AddRequest(@, request)]
                /\ chosen' = i
                /\ dropped' =
                     IF servers'[i].Queue = servers[i].Queue THEN dropped + 1 ELSE dropped
                /\ enqueuedLog' =
                     IF servers'[i].Queue = servers[i].Queue
                     THEN enqueuedLog
                     ELSE [enqueuedLog EXCEPT ![i] = Append(@, request)]
          /\ dispatched' = dispatched + 1
          /\ requests' = Tail(requests)
          /\ pc' = IF requests' = <<>> THEN "admit" ELSE "dispatch"
  /\ UNCHANGED <<cfg, prevCompletion, tm, acceptedRequests, totalCached, totalQueued,
                 totalTime, tmx, cur, si, done>>
  /\ UNCHANGED <<carried, resets, resetTick, released, insertedSince, touchedSince,
                 admittedLog, printed>>

\* history: a lookup of `key` on server i that hits is a use of `key` after the
\* last insert of every other key of that cache
NoteLookup(i, key) ==
  IF Contains(servers[i].Cache, key)
  THEN [touchedSince EXCEPT ![i] =
          [k \in DOMAIN @ |-> IF k = key THEN @[k] ELSE @[k] \cup {key}]]
  ELSE touchedSince

\* history: an insert of `key` on server i
NoteInsert(hist, i, key) ==
  [hist EXCEPT ![i] =
     [k \in (DOMAIN @) \cup {key} |-> IF k = key THEN {} ELSE @[k] \cup {key}]]

\* An admission loop that leaves the admitted request in the queue
AdmitKeepsQueue(s) == HandleRequest(s, Head(s.Queue))

\* An admission loop that takes the newest entry of the queue
AdmitLast(s) ==
  [HandleRequest(s, s.Queue[Len(s.Queue)]) EXCEPT !.Queue = SubSeq(@, 1, Len(@) - 1)]

\* The body of Server.Tick's first loop (main.go:162-163): HandleRequest on
\* s.Queue[0], then s.Queue = s.Queue[1:].
AdmitHead(s) == [HandleRequest(s, Head(s.Queue)) EXCEPT !.Queue = Tail(@)]

\* Server.Tick, one iteration of its first loop (main.go:161-164) on server cur.
Admit ==
  /\ pc = "admit"
  /\ servers[cur].SlotsUsed < numSlots
  /\ Len(servers[cur].Queue) > 0
  /\ IF FindSlot(servers[cur]) = -1
     THEN /\ pc' = "panicAllSlotsUsed"
          /\ UNCHANGED <<servers, touchedSince, admittedLog>>
     ELSE /\ servers' = [servers EXCEPT ![cur] = AdmitHead(@)]
          /\ touchedSince' = NoteLookup(cur, servers'[cur].Slots[FindSlot(servers[cur])].Request.Item)
          /\ admittedLog' =
               [admittedLog EXCEPT ![cur] =
                  Append(@, servers'[cur].Slots[FindSlot(servers[cur])].Request)]
          /\ pc' = pc
  /\ UNCHANGED <<cfg, prevCompletion, tm, rrIdx, totalRequests, acceptedRequests,
                 totalCached, totalQueued, totalTime, tmx, requests, cur, si, done>>
  /\ UNCHANGED <<dispatched, chosen, dropped, carried, resets, resetTick, released,
                 insertedSince, enqueuedLog, printed>>

\* Server.Tick, the end of its first loop and ret = []Request{} (main.go:161, 166).
AdmitDone ==
  /\ pc = "admit"
  /\ ~(servers[cur].SlotsUsed < numSlots /\ Len(servers[cur].Queue) > 0)
  /\ pc' = "release"
  /\ si' = 0
  /\ done' = <<>>
  /\ UNCHANGED <<cfg, prevCompletion, tm, servers, rrIdx, totalRequests, acceptedRequests,
                 totalCached, totalQueued, totalTime, tmx, requests, cur>>
  /\ UNCHANGED histVars

\* The release test with < for <=
DueLate(sl) == sl.Full /\ sl.Request.Completed < tm

\* The test of Server.Tick's second loop (main.go:169)
Due(sl) == sl.Full /\ sl.Request.Completed <= tm

\* Server.Tick, one iteration of its loop over the slots (main.go:168-172).
ScanSlot ==
  /\ pc = "release"
  /\ LET sl == servers[cur].Slots[si] IN
     IF Due(sl)
     THEN /\ servers' = [servers EXCEPT ![cur] = CompleteRequest(@, si)]
          /\ done' = Append(done, sl.Request)
          /\ insertedSince' = NoteInsert(insertedSince, cur, sl.Request.Item)
          /\ touchedSince' = NoteInsert(touchedSince, cur, sl.Request.Item)
     ELSE UNCHANGED <<servers, done, insertedSince, touchedSince>>
  /\ si' = si + 1
  /\ pc' = IF si' >= numSlots THEN "record" ELSE "release"
  /\ UNCHANGED <<cfg, prevCompletion, tm, rrIdx, totalRequests, acceptedRequests,
                 totalCached, totalQueued, totalTime, tmx, requests, cur>>
  /\ UNCHANGED <<dispatched, chosen, dropped, carried, resets, resetTick, released,
                 enqueuedLog, admittedLog, printed>>

\* RecordStats (main.go:182-189) on the next request of done (main.go:203-205).
RecordStats ==
  /\ pc = "record"
  /\ done # <<>>
  /\ LET r == Head(done) IN
     /\ acceptedRequests' = acceptedRequests + 1
     /\ totalQueued' = totalQueued + (r.Accepted - r.Sent)
     /\ totalTime' = totalTime + (r.Completed - r.Sent)
     /\ totalCached' = IF r.Cached THEN totalCached + 1 ELSE totalCached
     /\ released' = Append(released, [r |-> r, at |-> tm, server |-> cur])
  /\ done' = Tail(done)
  /\ UNCHANGED <<cfg, prevCompletion, tm, servers, rrIdx, totalRequests, tmx, pc,
                 requests, cur, si>>
  /\ UNCHANGED <<dispatched, chosen, dropped, carried, resets, resetTick,
                 insertedSince, touchedSince, enqueuedLog, admittedLog, printed>>

\* A loop over the servers that runs the admission loop of a server again after
\* its releases, while a slot is free and its queue is not empty
ServerDoneReadmits ==
  /\ pc = "record"
  /\ done = <<>>
  /\ IF servers[cur].SlotsUsed < numSlots /\ Len(servers[cur].Queue) > 0
     THEN cur' = cur /\ pc' = "admit"
     ELSE IF cur + 1 < numServers
          THEN cur' = cur + 1 /\ pc' = "admit"
          ELSE cur' = cur /\ pc' = "main"
  /\ UNCHANGED <<cfg, prevCompletion, tm, servers, rrIdx, totalRequests, acceptedRequests,
                 totalCached, totalQueued, totalTime, tmx, requests, si, done>>
  /\ UNCHANGED histVars

\* Tick, the step of its loop over the servers (main.go:201, 206).
ServerDone ==
  /\ pc = "record"
  /\ done = <<>>
  /\ IF cur + 1 < numServers
     THEN cur' = cur + 1 /\ pc' = "admit"
     ELSE cur' = cur /\ pc' = "main"
  /\ UNCHANGED <<cfg, prevCompletion, tm, servers, rrIdx, totalRequests, acceptedRequests,
                 totalCached, totalQueued, totalTime, tmx, requests, si, done>>
  /\ UNCHANGED histVars

\* finish that does not wait for the outstanding requests
FinishAtHorizon == tm >= requestLimit

\* main's `finish` (main.go:229), total being the sum of main.go:216-219
Finish == TotalOutstanding = 0 /\ tm >= requestLimit

\* a reset at every tick from the midpoint on
ResetFromMidpoint == tm >= requestLimit \div 2

\* main's reset condition (main.go:220)
ResetNow == tm = requestLimit \div 2

\* main, the rest of one iteration of its loop after Tick() (main.go:215-248).
MainCheck ==
  /\ pc = "main"
  /\ IF ResetNow
     THEN /\ totalRequests' = 0
          /\ acceptedRequests' = 0
          /\ totalQueued' = 0
          /\ totalTime' = 0
          /\ totalCached' = 0
          /\ tmx' = 0
          /\ dropped' = 0
          /\ carried' = TotalOutstanding
          /\ resets' = resets + 1
          /\ resetTick' = tm
     ELSE /\ tmx' = tmx + 1
          /\ UNCHANGED <<totalRequests, acceptedRequests, totalQueued, totalTime,
                         totalCached, dropped, carried, resets, resetTick>>
  /\ LET completion == (10 * tm) \div requestLimit IN
     /\ printed' = ((acceptedRequests' >= cfg.reportAfter /\ completion # prevCompletion)
                     \/ Finish)
     /\ prevCompletion' = IF printed' THEN completion ELSE prevCompletion
  /\ pc' = IF Finish THEN "exit" ELSE "tick"
  /\ UNCHANGED <<cfg, tm, servers, rrIdx, requests, cur, si, done>>
  /\ UNCHANGED <<dispatched, chosen, released, insertedSince, touchedSince,
                 enqueuedLog, admittedLog>>

Next ==
  \/ TickBegin
  \/ Dispatch
  \/ Admit
  \/ AdmitDone
  \/ ScanSlot
  \/ RecordStats
  \/ ServerDone
  \/ MainCheck

----------------------------------------------------------------------------
\* Bounds of the arrival process: the largest Poisson count of one tick, and the
\* largest count of the burst that loads one server past the margin of modchoose2
MaxArrivals == 2
BiasBurst == 19

\* The general configuration: the constants of main.go:34-42 scaled down (the
\* counters are zeroed at tick 5, the horizon is tick 10), two item keys, and an
\* arrival process that is silent outside the ticks of `ticks`.
SmallConfig(p, ticks) ==
  [numServers |-> 2, numSlots |-> 3, cachedHandleTime |-> 1, uncachedHandleTime |-> 3,
   requestLimit |-> 10, cacheSize |-> 2, maxQueue |-> 2, policy |-> p, reportAfter |-> 2,
   items |-> {0, 1}, maxArrivals |-> MaxArrivals, arrivalTicks |-> ticks]

\* Three servers under round robin, one key.
RoundRobinConfig ==
  [numServers |-> 3, numSlots |-> 1, cachedHandleTime |-> 1, uncachedHandleTime |-> 3,
   requestLimit |-> 3, cacheSize |-> 2, maxQueue |-> 1, policy |-> "roundrobin",
   reportAfter |-> 2, items |-> {0}, maxArrivals |-> MaxArrivals + 1, arrivalTicks |-> 1 .. 3]

\* modchoose2 with the margin of main.go:102 in reach: one burst of up to BiasBurst
\* requests of key 0 (first candidate 0, second candidate 1) at tick 1.
BiasConfig ==
  [numServers |-> 2, numSlots |-> 2, cachedHandleTime |-> 1, uncachedHandleTime |-> 2,
   requestLimit |-> 2, cacheSize |-> 2, maxQueue |-> 18, policy |-> "modchoose2",
   reportAfter |-> 2, items |-> {0}, maxArrivals |-> BiasBurst, arrivalTicks |-> {1}]

\* One server with a cache of two keys and three keys in use.
CacheConfig ==
  [numServers |-> 1, numSlots |-> 2, cachedHandleTime |-> 1, uncachedHandleTime |-> 2,
   requestLimit |-> 6, cacheSize |-> 2, maxQueue |-> 2, policy |-> "modulohash",
   reportAfter |-> 2, items |-> {0, 1, 2}, maxArrivals |-> 1, arrivalTicks |-> 1 .. 6]

\* The scenario of one server with one slot and the handle times of main.go:38-39:
\* a request of key 5 may arrive at ticks 1, 2 and 101..104, and at no other tick.
ScenarioConfig ==
  [numServers |-> 1, numSlots |-> 1, cachedHandleTime |-> 10, uncachedHandleTime |-> 100,
   requestLimit |-> 104, cacheSize |-> 2, maxQueue |-> 1, policy |-> "modulohash",
   reportAfter |-> 2, items |-> {5}, maxArrivals |-> 1,
   arrivalTicks |-> {1, 2} \cup (101 .. 104)]

Init ==
  InitWith({SmallConfig("roundrobin", {1, 5, 6}), SmallConfig("modulohash", {1, 4, 5, 6}),
            SmallConfig("random", {5, 6}), BiasConfig})

Spec == Init /\ [][Next]_vars

\* main is one sequential loop: a step that can be taken is taken.
LiveSpec == Init /\ [][Next]_vars /\ WF_vars(Next)

InitRoundRobin == InitWith({RoundRobinConfig})
SpecRoundRobin == InitRoundRobin /\ [][Next]_vars

InitBias == InitWith({BiasConfig})
SpecBias == InitBias /\ [][Next]_vars

InitCache == InitWith({CacheConfig})
SpecCache == InitCache /\ [][Next]_vars

InitScenario == InitWith({ScenarioConfig})
SpecScenario == InitScenario /\ [][Next]_vars

\* A run started with a policy name that is no key of choosePolicy, arrivals
\* possible from tick 2 on, beside a run started with a name that is one.
UnknownPolicyConfig == SmallConfig("leastloaded", {2, 3})

InitAnyName == InitWith({UnknownPolicyConfig, SmallConfig("modulohash", {1, 5})})
SpecAnyName == InitAnyName /\ [][Next]_vars

----------------------------------------------------------------------------
\* The number of slots of server i whose Full flag is set
FullSlots(i) == Cardinality({j \in SlotIds : servers[i].Slots[j].Full})

\* C1: in every state (after every tick, every HandleRequest and every
\* CompleteRequest) each server's SlotsUsed is the number of its slots whose Full
\* flag is set, and lies in 0..numSlots.
C1_SlotsUsedCountsFullSlots ==
  \A i \in ServerIds :
    /\ servers[i].SlotsUsed = FullSlots(i)
    /\ 0 <= servers[i].SlotsUsed
    /\ servers[i].SlotsUsed <= numSlots

\* A server on which one request has been released and others are still slotted,
\* in the middle of the release loop.
C1_Witness ==
  /\ pc = "release"
  /\ \E i \in ServerIds :
       /\ servers[i].SlotsUsed > 0
       /\ servers[i].SlotsUsed < numSlots
       /\ \E j \in SlotIds : ~servers[i].Slots[j].Full /\ servers[i].Slots[j].Request.Completed > 0

\* C2: in every state every server's queue holds at most maxQueue requests (so an
\* arrival that finds the queue at maxQueue was not enqueued).
C2_QueueAtMostMaxQueue ==
  \A i \in ServerIds : Len(servers[i].Queue) <= maxQueue

\* A request has just been dispatched to a server whose queue was full, and dropped.
C2_Witness ==
  /\ chosen \in ServerIds
  /\ Len(servers[chosen].Queue) = maxQueue
  /\ dropped > 0
  /\ pc \in {"dispatch", "admit"}
  /\ cur = 0
  /\ servers[chosen].Queue[1].Sent < tm

\* The points at which main observes the counters: after Tick() returns, and
\* after the rest of the loop body.
AtObservation == pc \in {"main", "tick", "exit"}

\* C3 as stated: at every observation point generated = accepted + dropped.
C3_AsStated ==
  AtObservation => totalRequests = acceptedRequests + dropped

\* C3 amended: at every observation point
\*   generated + carried = accepted + dropped + outstanding
\* where outstanding is the sum of Outstanding() over the servers (generated, not
\* dropped, not yet recorded), carried is what was outstanding when the counters
\* were zeroed (0 before the reset), and dropped counts since that zeroing.
C3_Conservation ==
  AtObservation =>
    totalRequests + carried = acceptedRequests + dropped + TotalOutstanding

\* After the reset: requests carried over it, a drop, a recorded request and a
\* request still outstanding.
C3_Witness ==
  /\ pc = "main"
  /\ resets = 1
  /\ carried > 0
  /\ dropped > 0
  /\ acceptedRequests > 0
  /\ TotalOutstanding > 0

\* The step of Admit that calls HandleRequest on the head of server cur's queue
AdmitStep == pc = "admit" /\ servers'[cur].SlotsUsed = servers[cur].SlotsUsed + 1

\* The request as HandleRequest left it in its slot
Admitted == servers'[cur].Slots[FindSlot(servers[cur])].Request

C5_MonotonicTimes ==
  \A k \in 1 .. Len(released) :
    /\ released[k].r.Sent <= released[k].r.Accepted
    /\ released[k].r.Accepted <= released[k].r.Completed

\* A recorded request that waited in the queue before it was admitted.
C5_Witness ==
  \E k \in 1 .. Len(released) :
    /\ released[k].r.Sent < released[k].r.Accepted
    /\ released[k].r.Accepted < released[k].r.Completed

\* C6: one server, one slot, cached time 10, uncached time 100.  The first request
\* recorded (the first to arrive, at tick t, on the idle server with the empty
\* cache) was accepted at t, was a miss, and was completed and released at t + 100;
\* if the second arrived at a tick u > t + 100, it was accepted at u, was a hit,
\* and was completed and released at u + 10.
C6_Scenario ==
  (numServers = 1 /\ numSlots = 1 /\ cachedHandleTime = 10 /\ uncachedHandleTime = 100) =>
    /\ Len(released) >= 1 =>
         LET e == released[1]  t == e.r.Sent IN
         /\ e.r.Accepted = t
         /\ ~e.r.Cached
         /\ e.r.Completed = t + 100
         /\ e.at = t + 100
    /\ (Len(released) >= 2 /\ released[2].r.Sent > released[1].r.Sent + 100) =>
         LET e == released[2]  u == e.r.Sent IN
         /\ e.r.Item = released[1].r.Item
         /\ e.r.Accepted = u
         /\ e.r.Cached
         /\ e.r.Completed = u + 10
         /\ e.at = u + 10

\* Both requests of the scenario have been recorded, the second having arrived
\* after the first was released.
C6_Witness ==
  /\ numServers = 1 /\ numSlots = 1
  /\ Len(released) >= 2
  /\ released[2].r.Sent > released[1].r.Sent + 100
  /\ released[2].r.Cached

\* C7: under modchoose2, with first = item mod numServers and second =
\* (first * item + 1) mod numServers, ChooseServer returns one of the two; it
\* returns the second only if the second's Outstanding() is lower than the
\* first's by more than 16, and the first when the difference is 16 or less.
C7_SecondOnlyBeyondMargin ==
  [][(dispatched' = dispatched + 1 /\ policy = "modchoose2") =>
       LET item == Head(requests).Item
           first == item % numServers
           second == (first * item + 1) % numServers
           outFirst == Len(servers[first].Queue) + servers[first].SlotsUsed
           outSecond == Len(servers[second].Queue) + servers[second].SlotsUsed
       IN /\ chosen' \in {first, second}
          /\ chosen' # first => outFirst - outSecond > 16
          /\ outFirst - outSecond <= 16 => chosen' = first]_vars

\* Key 0 (first candidate 0, second candidate 1): the request that found 16 on
\* server 0 and none on server 1 went to server 0, and the next one, finding 17
\* and none, has just gone to server 1.
C7_Witness ==
  /\ policy = "modchoose2"
  /\ chosen = 1
  /\ Len(servers[0].Queue) + servers[0].SlotsUsed = 17
  /\ Len(servers[1].Queue) + servers[1].SlotsUsed = 1
  /\ pc \in {"dispatch", "admit"}
  /\ cur = 0

\* C8: under roundrobin the k-th ChooseServer call of the run (k from 0, dropped
\* requests included) returns k mod numServers.
C8_RoundRobinCycles ==
  [][(dispatched' = dispatched + 1 /\ policy = "roundrobin") =>
       chosen' = dispatched % numServers]_vars

\* Three servers: more than six requests dispatched, some of them dropped, the
\* last one to server 2.
C8_Witness ==
  /\ policy = "roundrobin"
  /\ numServers = 3
  /\ dispatched >= 6
  /\ dispatched % 3 = 0
  /\ chosen = 2
  /\ dropped > 0

\* C9: the loop of main terminates; no request is generated once tm has passed
\* requestLimit; the loop exits only with tm >= requestLimit and no request queued
\* or in a slot, and exits at the first tick at which that holds.
C9_Terminates ==
  /\ <>(pc = "exit")
  /\ [][dispatched' # dispatched => tm <= requestLimit]_vars
  /\ [][pc' = "exit" => (tm >= requestLimit /\ TotalOutstanding = 0
                          /\ \A i \in ServerIds :
                               /\ servers[i].Queue = <<>>
                               /\ \A j \in SlotIds : ~servers[i].Slots[j].Full)]_vars
  /\ [][(pc = "main" /\ tm >= requestLimit /\ TotalOutstanding = 0) => pc' = "exit"]_vars

\* The loop has exited after ticks past the horizon in which the requests
\* still outstanding at the horizon were released.
C9_Witness ==
  /\ pc = "exit"
  /\ tm > requestLimit + 1
  /\ Len(released) > 0
  /\ released[Len(released)].at = tm

\* C10: the counters are zeroed at most once, only at the tick requestLimit / 2,
\* not before it, and they have been zeroed once that tick's loop body is over.
C10_ResetExactlyOnce ==
  /\ resets <= 1
  /\ resets = 1 => resetTick = requestLimit \div 2
  /\ tm < requestLimit \div 2 => resets = 0
  /\ (tm > requestLimit \div 2 \/ pc = "exit") => resets = 1
  /\ (pc = "tick" /\ tm = requestLimit \div 2) =>
       /\ resets = 1
       /\ totalRequests = 0 /\ acceptedRequests = 0 /\ totalCached = 0
       /\ totalQueued = 0 /\ totalTime = 0 /\ tmx = 0

\* The run is over: the counters were zeroed once, and requests were generated
\* and recorded both before and after.
C10_Witness ==
  /\ pc = "exit"
  /\ resets = 1
  /\ totalRequests > 0
  /\ acceptedRequests > totalRequests
  /\ Len(released) > acceptedRequests

----------------------------------------------------------------------------
\* C11 (as stated): a policy name that is none of random, roundrobin, modulohash,
\* modchoose2 is rejected before the first tick, so no tick of a run started with
\* such a name ends in a fault.
C11_AsStated == ChooseServerIsNil => (pc # "panicNilFunc")

----------------------------------------------------------------------------
\* The requests AddRequest appended to some queue so far, and those HandleRequest
\* put into a slot so far
RECURSIVE SumLen(_, _)
SumLen(log, n) == IF n = 0 THEN 0 ELSE Len(log[n - 1]) + SumLen(log, n - 1)

\* A dispatch to a server whose queue holds maxQueue requests
DropStep ==
  /\ pc = "dispatch"
  /\ dispatched' = dispatched + 1
  /\ Len(servers[chosen'].Queue) >= maxQueue

\* C12: an arrival dispatched to a server whose queue is at maxQueue leaves every
\* server (queue, slots, SlotsUsed, cache) as it was and still raises the
\* generated counter by one; it is not admitted then or later and never reaches
\* RecordStats: nothing is admitted or recorded by the step, a server never
\* admits more requests than AddRequest appended to its queue, and never more
\* are recorded than were admitted.
C12_FullQueueDrops ==
  /\ [][DropStep =>
         /\ servers' = servers
         /\ totalRequests' = totalRequests + 1
         /\ acceptedRequests' = acceptedRequests
         /\ released' = released /\ admittedLog' = admittedLog
         /\ enqueuedLog' = enqueuedLog /\ requests' = Tail(requests)]_vars
  /\ [][/\ \A i \in ServerIds : Len(admittedLog'[i]) <= Len(enqueuedLog'[i])
        /\ Len(released') + Len(done') <= SumLen(admittedLog', numServers)]_vars

\* Reached: a run has ended in which an arrival was dropped at a full queue
\* after the reset, and exactly the arrivals that were appended to a queue have
\* been recorded.
C12_Witness ==
  /\ pc = "exit"
  /\ dropped > 0
  /\ dispatched > SumLen(enqueuedLog, numServers)
  /\ Len(released) = SumLen(enqueuedLog, numServers)

----------------------------------------------------------------------------
\* C13 (as stated): at each admission Completed = Accepted + base plus the
\* surcharge (base/numSlots)*(n - numSlots/2) if n > numSlots/2, where n is the
\* slots-in-use count after this admission, the admitted request included.
C13_AsStated ==
  [][AdmitStep =>
       LET n == servers[cur].SlotsUsed + 1
           base == IF Admitted.Cached THEN cachedHandleTime ELSE uncachedHandleTime
       IN Admitted.Completed =
            Admitted.Accepted +
              (IF n > numSlots \div 2
               THEN base + (base \div numSlots) * (n - numSlots \div 2)
               ELSE base)]_vars

\* C13 amended: the same formula with n the slots-in-use count before this
\* admission, the admitted request not included; that count is the number of
\* Full slots at that moment, so successive admissions of one tick see n grow
\* by one each.
C13_SurchargeFromCountBefore ==
  [][AdmitStep =>
       LET n == servers[cur].SlotsUsed
           base == IF Admitted.Cached THEN cachedHandleTime ELSE uncachedHandleTime
       IN /\ n = FullSlots(cur)
          /\ Admitted.Accepted = tm
          /\ Admitted.Completed =
               Admitted.Accepted +
                 (IF n > numSlots \div 2
                  THEN base + (base \div numSlots) * (n - numSlots \div 2)
                  ELSE base)]_vars

\* Reached: two misses admitted on one server in the same tick, the one without
\* and the other with a surcharge, the latter into the last free slot.
C13_Witness ==
  /\ pc = "admit"
  /\ servers[cur].SlotsUsed = numSlots
  /\ uncachedHandleTime >= numSlots
  /\ \E j, k \in SlotIds :
       LET a == servers[cur].Slots[j].Request
           b == servers[cur].Slots[k].Request
       IN /\ a.Accepted = tm /\ b.Accepted = tm
          /\ ~a.Cached /\ ~b.Cached
          /\ a.Completed = tm + uncachedHandleTime
          /\ b.Completed =
               tm + uncachedHandleTime
                  + (uncachedHandleTime \div numSlots) * (numSlots - 1 - numSlots \div 2)
          /\ b.Completed > a.Completed

----------------------------------------------------------------------------
\* A release on server cur: CompleteRequest ran
ReleaseStep == pc = "release" /\ servers'[cur].SlotsUsed = servers[cur].SlotsUsed - 1

----------------------------------------------------------------------------
\* Server.Tick of the current tick has returned for server i
Ticked(i) ==
  \/ pc \in {"main", "tick", "exit"}
  \/ pc \in {"admit", "release", "record"} /\ i < cur
  \/ pc = "record" /\ i = cur

\* C15: a request is released in exactly the tick of its Completed stamp: once
\* Server.Tick at time tm has returned for a server, none of its Full slots
\* holds a request with Completed <= tm; every request Server.Tick returns at
\* time tm has Completed = tm.
C15_ReleasedAtCompletion ==
  /\ \A i \in ServerIds : Ticked(i) =>
       \A j \in SlotIds :
         servers[i].Slots[j].Full => servers[i].Slots[j].Request.Completed > tm
  /\ \A k \in 1 .. Len(done) : done[k].Completed = tm
  /\ \A k \in 1 .. Len(released) : released[k].at = released[k].r.Completed

\* Reached: Server.Tick returned a request that had been in its slot for more
\* than two ticks, and left another slot of that server Full.
C15_Witness ==
  /\ pc = "record"
  /\ done # <<>>
  /\ done[1].Accepted + 2 < tm
  /\ done[1].Completed = tm
  /\ \E j \in SlotIds :
       servers[cur].Slots[j].Full /\ servers[cur].Slots[j].Request.Completed > tm

----------------------------------------------------------------------------
\* C16: within Server.Tick all admissions come before any release: when a
\* request is admitted on a server at tick tm, no request of that server has
\* been released at tick tm (so no slot freed at tick tm is refilled at tick tm),
\* and every key in the cache it looks up was inserted by a release of that
\* server at an earlier tick.
C16_AdmissionsBeforeReleases ==
  [][AdmitStep =>
       /\ done = <<>>
       /\ \A k \in 1 .. Len(released) : released[k].server = cur => released[k].at < tm
       /\ \A c \in 1 .. Len(servers[cur].Cache) :
            \E k \in 1 .. Len(released) :
              /\ released[k].server = cur
              /\ released[k].r.Item = servers[cur].Cache[c]
              /\ released[k].at < tm]_vars

\* Reached: Server.Tick has returned for a server that released a request of key
\* K in this tick, after it admitted a request of K as a miss in this tick, and
\* that is left with a free slot and a queue that is not empty.
C16_Witness ==
  \E i \in ServerIds :
    /\ Ticked(i)
    /\ servers[i].SlotsUsed < numSlots
    /\ Len(servers[i].Queue) > 0
    /\ \E k \in 1 .. Len(released), j \in SlotIds :
         /\ released[k].server = i /\ released[k].at = tm
         /\ servers[i].Slots[j].Full
         /\ servers[i].Slots[j].Request.Accepted = tm
         /\ ~servers[i].Slots[j].Request.Cached
         /\ servers[i].Slots[j].Request.Item = released[k].r.Item

----------------------------------------------------------------------------
\* C17: each server admits in the order of its queue: the k-th request a server
\* admits (and looks up in its cache) is the k-th request that was appended to
\* its queue, the Accepted stamps of its admissions never decrease, and its
\* queue holds the appended requests not yet admitted, in the order appended.
C17_FifoAdmission ==
  \A i \in ServerIds :
    LET a == admittedLog[i]
        e == enqueuedLog[i]
    IN /\ Len(a) <= Len(e)
       /\ \A k \in 1 .. Len(a) :
            /\ a[k].Item = e[k].Item
            /\ a[k].Sent = e[k].Sent
            /\ k > 1 => a[k - 1].Accepted <= a[k].Accepted
       /\ servers[i].Queue = SubSeq(e, Len(a) + 1, Len(e))

\* Reached: a server admitted two requests of different keys in one tick and,
\* in a later tick, a request that had waited in its queue for more than a tick.
C17_Witness ==
  \E i \in ServerIds :
    \E k \in 1 .. Len(admittedLog[i]) - 2 :
      /\ admittedLog[i][k].Item # admittedLog[i][k + 1].Item
      /\ admittedLog[i][k].Accepted = admittedLog[i][k + 1].Accepted
      /\ \E m \in k + 2 .. Len(admittedLog[i]) :
           /\ admittedLog[i][k + 1].Accepted < admittedLog[i][m].Accepted
           /\ admittedLog[i][m].Sent + 1 < admittedLog[i][m].Accepted

----------------------------------------------------------------------------
\* C18: the panic "All slots used" of FindSlot is not reached: in every state in
\* which the admission loop calls HandleRequest (SlotsUsed < numSlots and the
\* queue is not empty) the server has a slot that is not Full.
C18_FindSlotNeverPanics ==
  /\ pc # "panicAllSlotsUsed"
  /\ (/\ pc = "admit"
      /\ servers[cur].SlotsUsed < numSlots
      /\ Len(servers[cur].Queue) > 0)
       => /\ FindSlot(servers[cur]) \in SlotIds
          /\ ~servers[cur].Slots[FindSlot(servers[cur])].Full

\* Reached: HandleRequest is about to be called on a server whose only free
\* slot is the last one, the others having been filled in this tick and before.
C18_Witness ==
  /\ pc = "admit"
  /\ servers[cur].SlotsUsed = numSlots - 1
  /\ Len(servers[cur].Queue) > 0
  /\ FindSlot(servers[cur]) = numSlots - 1
  /\ numSlots > 1
  /\ servers[cur].Slots[0].Request.Accepted < tm
  /\ servers[cur].Slots[1].Request.Accepted = tm

----------------------------------------------------------------------------
\* What identifies a request from its generation on
Key(r) == [Item |-> r.Item, Sent |-> r.Sent]

\* The requests with key k: in a sequence of requests, in the Full slots of a
\* server, and among the requests passed to RecordStats for server i
InSeq(seq, k) == Cardinality({n \in 1 .. Len(seq) : Key(seq[n]) = k})
InSlots(s, k) ==
  Cardinality({j \in DOMAIN s.Slots : s.Slots[j].Full /\ Key(s.Slots[j].Request) = k})
InReleased(rel, i, k) ==
  Cardinality({n \in 1 .. Len(rel) : rel[n].server = i /\ Key(rel[n].r) = k})

\* For server i: how many requests are in its queue, in its slots, returned by
\* its Server.Tick but not yet recorded, and recorded
Places(srv, dn, rel, c, i) ==
  <<Len(srv[i].Queue),
    Cardinality({j \in DOMAIN srv[i].Slots : srv[i].Slots[j].Full}),
    IF i = c THEN Len(dn) ELSE 0,
    Cardinality({n \in 1 .. Len(rel) : rel[n].server = i})>>

\* Every request appended to the queue of server i is in exactly one place of
\* server i, and nothing else is there.
OnePlaceEach ==
  \A i \in ServerIds :
    LET P == Places(servers, done, released, cur, i) IN
    /\ Len(enqueuedLog[i]) = P[1] + P[2] + P[3] + P[4]
    /\ \A k \in {Key(enqueuedLog[i][n]) : n \in 1 .. Len(enqueuedLog[i])} :
         InSeq(enqueuedLog[i], k) =
             InSeq(servers[i].Queue, k) + InSlots(servers[i], k)
           + (IF i = cur THEN InSeq(done, k) ELSE 0) + InReleased(released, i, k)

\* C19: every generated request that is not dropped is at every moment in
\* exactly one place: the queue of the server it was dispatched to, a slot of
\* that server, or released (returned by Server.Tick and passed to RecordStats
\* once); a step moves at most one request, from outside into a queue, from the
\* queue into a slot, from a slot to the returned ones, or from there to
\* RecordStats, and nothing moves backwards or between servers.
C19_OnePlaceAndForward ==
  /\ OnePlaceEach
  /\ [][OnePlaceEach']_vars
  /\ [][\A i \in ServerIds :
          LET P == Places(servers, done, released, cur, i)
              Q == Places(servers', done', released', cur', i)
          IN \/ Q = P
             \/ Q = <<P[1] + 1, P[2], P[3], P[4]>>
             \/ Q = <<P[1] - 1, P[2] + 1, P[3], P[4]>>
             \/ Q = <<P[1], P[2] - 1, P[3] + 1, P[4]>>
             \/ Q = <<P[1], P[2], P[3] - 1, P[4] + 1>>]_vars
  /\ [][\E n \in 0 .. 1 :
          /\ Len(released') = Len(released) + n
          /\ SubSeq(released', 1, Len(released)) = released
          /\ acceptedRequests' \in {acceptedRequests + n, 0}]_vars

\* Reached: one server has requests in its queue, in a slot, returned but not
\* yet recorded, and recorded, while an arrival was dropped and the other
\* servers hold requests too.
C19_Witness ==
  /\ pc = "record"
  /\ dispatched > SumLen(enqueuedLog, numServers)
  /\ \A i \in ServerIds : Len(enqueuedLog[i]) > 0
  /\ LET P == Places(servers, done, released, cur, cur) IN
     P[1] > 0 /\ P[2] > 0 /\ P[3] > 0 /\ P[4] > 0

----------------------------------------------------------------------------
\* C20 (as stated): whenever the loop body of main has just printed a snapshot,
\* the accepted counter it printed is at most the generated counter it printed,
\* after the mid-run reset too.
C20_AsStated ==
  (printed /\ pc \in {"tick", "exit"}) => acceptedRequests <= totalRequests

====
